---- MODULE Spec2Model ----
(***************************************************************************)
(* LeapMIDIX::Device (src/LeapMIDIX/Device.cpp) and the entry thread of    *)
(* src/LeapMIDIX/main.cpp as a state machine of three threads:             *)
(*   main     - Device::init, the sendNote loop, Device::~Device           *)
(*   producer - a caller of Device::addControlMessage                      *)
(*   worker   - Device::messageSendingThreadEntry and what it calls        *)
(* Time is the wall clock in microseconds; gettimeofday splits it into the *)
(* tv_sec / tv_usec fields the code computes with.                         *)
(***************************************************************************)
EXTENDS Integers, Sequences, FiniteSets, TLC

\* ---------------------------------------------------------------- bounds
MaxMsgs == 2
\* the clock advances tick by tick at most this far past StartTime
MaxAdvance == 4001
\* no timed wait expires later than this
MaxTime == 3000000

\* ------------------------------------------------------ program constants
packetListSize == 512
StalenessMs == 2
TimeoutSec == 2
ControlLimit == 120
ValueLimit == 127
channelBase == 176
controlBase == 0
kMySize == 32
UsecPerSec == 1000000
ByteMod == 256
PacketListHeader == 4
PacketHeader == 10

\* the clock at construction: 1.5 ms before a second boundary, so that the
\* tv_usec field wraps between an enqueue and its examination
StartTime == 998500
\* clock advances the environment may take between two steps (microseconds)
Deltas == {2000, 2001}
\* (control index, control value) pairs a producer may pass
Inputs == {<<5, 100>>, <<120, 128>>}
\* the note sendNote draws with rand() % 40 + 25
Notes == {25, 64}
\* OSStatus values MIDIReceived may return
noErr == 0
Statuses == {0, -1}
ETIMEDOUT == 60
EPERM == 1
EINVAL == 22

VARIABLES
    proc,             \* "running", or how the process ended
    mpc,              \* main thread position
    ppc,              \* producer thread position
    wpc,              \* worker thread position
    mutex,            \* messageQueueMutex: "free", its owner, or "destroyed"
    cond,             \* messageQueueCond: "init" or "destroyed"
    cancelRequested,  \* pthread_cancel was called on messageQueueThread
    deviceClient,     \* "NULL", "created", "disposed"
    deviceEndpoint,   \* "NULL", "created", "disposed"
    midiPacketList,   \* the member pointer: "NULL", "alloc", "freed" (dangling)
    packets,          \* packets of the block midiPacketList points to
    midiMessageQueue, \* the shared queue
    queueCopy,        \* the worker's thread-local batch
    msg,              \* the worker's current message
    parg,             \* the producer's arguments <<controlIndex, controlValue>>
    now,              \* wall clock, microseconds
    ts,               \* the worker's absolute deadline
    wres,             \* the worker's res while pthread_cond_timedwait returns
    sendStatus,       \* the worker's last OSStatus from Device::send
    enqueued,         \* history: updates pushed, in push order
    examined,         \* history: updates the worker examined, each with the
                      \* number of updates left in its batch
    sends             \* history: MIDIReceived calls

vars == <<proc, mpc, ppc, wpc, mutex, cond, cancelRequested, deviceClient,
          deviceEndpoint, midiPacketList, packets, midiMessageQueue, queueCopy,
          msg, parg, now, ts, wres, sendStatus, enqueued,
          examined, sends>>

\* a midi_message; id, at (the clock at the enqueue) and inwait (the worker
\* was inside pthread_cond_timedwait at the enqueue) are not fields of the
\* struct: they name the update and record when it was pushed
NoMsg == [id |-> 0, control_index |-> 0, control_value |-> 0,
          timestamp |-> [tv_sec |-> 0, tv_usec |-> 0], at |-> 0,
          inwait |-> FALSE]

\* ---------------------------------------------------------------- helpers
Max(a, b) == IF a > b THEN a ELSE b

\* gettimeofday: the clock as a struct timeval
gettimeofday(t) == [tv_sec |-> t \div UsecPerSec, tv_usec |-> t % UsecPerSec]

\* Device.cpp:188-189. elapsedTime is a double in milliseconds; it is kept
\* here in thousandths of a millisecond, which is exact for both terms:
\* (dsec * 1000.0) * 1000 and (dusec / 1000.0) * 1000.
elapsedTime(tv, m) ==
    (tv.tv_sec - m.timestamp.tv_sec) * 1000 * 1000
        + (tv.tv_usec - m.timestamp.tv_usec)

IsStale_ge(tv, m) == elapsedTime(tv, m) >= StalenessMs * 1000
\* Device.cpp:190  if (elapsedTime > 2)
IsStale(tv, m) == elapsedTime(tv, m) > StalenessMs * 1000

\* Device.cpp:139-140  ts.tv_sec = tv.tv_sec + 2; ts.tv_nsec = 0
TimedWaitDeadline(tv) == [tv_sec |-> tv.tv_sec + TimeoutSec, tv_nsec |-> 0]

\* the deadline as a clock value in microseconds
DeadlineUs(d) == d.tv_sec * UsecPerSec + d.tv_nsec \div 1000

\* std::queue operations
QueuePush(q, m) == Append(q, m)
QueueFront_back(q) == q[Len(q)]
QueueFront(q) == Head(q)
QueuePop_two(q) == IF Len(q) > 1 THEN Tail(Tail(q)) ELSE Tail(q)
QueuePop(q) == Tail(q)

\* Device.cpp:93-94
AssertsHold(control, value) == control < ControlLimit /\ value <= ValueLimit

\* Device.cpp:98-110  Byte packetOut[3]
PacketOut(control, value) ==
    << (channelBase + 0) % ByteMod, (controlBase + control) % ByteMod,
       value % ByteMod >>

\* bytes a packet list of these packets occupies (numPackets, then per packet
\* timeStamp, length and the data)
RECURSIVE ListBytes(_)
ListBytes(ps) ==
    IF ps = << >> THEN PacketListHeader
    ELSE PacketHeader + Len(Head(ps).data) + ListBytes(Tail(ps))

\* MIDIPacketListAdd: the list with the packet added, or "NULL" when it
\* does not fit in listSize bytes
MIDIPacketListAdd(ps, listSize, time, data) ==
    LET added == Append(ps, [timeStamp |-> time, data |-> data])
    IN IF ListBytes(added) <= listSize THEN added ELSE "NULL"

\* MIDIPacketListInit
MIDIPacketListInit == << >>

\* pthread_mutex_unlock by the owner
Unlocked(m) == "free"

\* the push of addControlMessage and the worker's test and copy loop touch
\* midiMessageQueue; when the two threads are there together (the mutex does
\* not exclude them) the accesses race, which is undefined: the step crashes
\* or takes effect whole
RaceOutcomes(p, w) ==
    IF p = "push" /\ w \in {"checkempty", "drain"} THEN {"ok", "crash"}
    ELSE {"ok"}

Running == mpc \in {"loop", "send_free", "send_malloc"}

Init ==
    /\ proc = "running"
    /\ mpc = "start"
    /\ ppc = "idle"
    /\ wpc = "none"
    /\ mutex = "free"
    /\ cond = "init"
    /\ cancelRequested = FALSE
    /\ deviceClient = "NULL"
    /\ deviceEndpoint = "NULL"
    /\ midiPacketList = "NULL"
    /\ packets = << >>
    /\ midiMessageQueue = << >>
    /\ queueCopy = << >>
    /\ msg = NoMsg
    /\ parg = <<0, 0>>
    /\ now = StartTime
    /\ ts = [tv_sec |-> 0, tv_nsec |-> 0]
    /\ wres = 0
    /\ sendStatus = 0
    /\ enqueued = << >>
    /\ examined = << >>
    /\ sends = << >>


\* ------------------------------------------------------------ frame groups
hist == <<enqueued, examined, sends>>
clock == <<now>>
handles == <<deviceClient, deviceEndpoint>>
buffer == <<midiPacketList, packets>>
queues == <<midiMessageQueue, queueCopy, msg>>
wlocal == <<ts, wres, sendStatus>>
sync == <<mutex, cond, cancelRequested>>

\* the environment: the wall clock advances while an update is pending (the
\* clock is read at the enqueue, at the examination and for the deadline)
Tick ==
    /\ proc = "running"
    /\ midiMessageQueue # << >> \/ queueCopy # << >>
    /\ \E d \in Deltas :
        /\ now + d <= StartTime + MaxAdvance
        /\ now' = now + d
    /\ UNCHANGED <<proc, mpc, ppc, wpc, sync, handles, buffer, queues, parg,
                   wlocal, hist>>

\* ------------------------------------------------------------- main thread
\* Device::init, line 26: initPacketList() (no other thread exists yet)
M_InitPacketList ==
    /\ proc = "running" /\ mpc = "start"
    /\ midiPacketList' = "alloc"
    /\ packets' = MIDIPacketListInit
    /\ mpc' = "create_client"
    /\ UNCHANGED <<proc, ppc, wpc, sync, handles, queues, parg, clock, wlocal,
                   hist>>

\* Device::createDevice, lines 67-69
M_ClientCreate ==
    /\ proc = "running" /\ mpc = "create_client"
    /\ \E result \in Statuses :
        IF result # noErr
        THEN /\ proc' = "exit:create"
             /\ UNCHANGED <<mpc, deviceClient>>
        ELSE /\ deviceClient' = "created"
             /\ mpc' = "create_source"
             /\ UNCHANGED proc
    /\ UNCHANGED <<ppc, wpc, sync, deviceEndpoint, buffer, queues, parg, clock,
                   wlocal, hist>>

\* Device::createDevice, lines 71-73
M_SourceCreate ==
    /\ proc = "running" /\ mpc = "create_source"
    /\ \E result \in Statuses :
        IF result # noErr
        THEN /\ proc' = "exit:create"
             /\ UNCHANGED <<mpc, deviceEndpoint>>
        ELSE /\ deviceEndpoint' = "created"
             /\ mpc' = "spawn"
             /\ UNCHANGED proc
    /\ UNCHANGED <<ppc, wpc, sync, deviceClient, buffer, queues, parg, clock,
                   wlocal, hist>>

\* Device::init, lines 30-34: pthread_create
M_ThreadCreate ==
    /\ proc = "running" /\ mpc = "spawn"
    /\ \E res \in {0, 35} :
        IF res # 0
        THEN /\ proc' = "exit:thread"
             /\ UNCHANGED <<mpc, wpc>>
        ELSE /\ wpc' = "testcancel"
             /\ mpc' = "loop"
             /\ UNCHANGED proc
    /\ UNCHANGED <<ppc, sync, handles, buffer, queues, parg, clock, wlocal,
                   hist>>

\* main.cpp sendNote, lines 37-57, up to and including the MIDIReceived of
\* Device::send (line 80) on the local packet list
M_SendNote ==
    /\ proc = "running" /\ mpc = "loop"
    /\ \E note \in Notes :
        LET l1 == MIDIPacketListAdd(MIDIPacketListInit, kMySize, 0,
                                    <<144, note, 64>>)
            l2 == IF l1 = "NULL" THEN "NULL"
                  ELSE MIDIPacketListAdd(l1, kMySize, now + 1000,
                                         <<144, note, 0>>)
        IN mpc' = IF l2 = "NULL" THEN "loop" ELSE "send_free"
    /\ UNCHANGED <<proc, ppc, wpc, sync, handles, buffer, queues, parg, clock,
                   wlocal, hist>>

\* the pointer initPacketList lines 38-41 leave: if (midiPacketList) { free;
\* midiPacketList = NULL }. Freeing a block already freed is undefined.
FreeOutcomes(ptr) == IF ptr = "freed" THEN {"NULL", "crash"} ELSE {"NULL"}

\* initPacketList lines 38-41 on the entry thread
M_SendFree ==
    /\ proc = "running" /\ mpc = "send_free"
    /\ \E out \in FreeOutcomes(midiPacketList) :
        IF out = "crash"
        THEN proc' = "crash" /\ UNCHANGED <<mpc, midiPacketList>>
        ELSE /\ midiPacketList' = out
             /\ mpc' = "send_malloc"
             /\ UNCHANGED proc
    /\ UNCHANGED <<ppc, wpc, sync, handles, packets, queues, parg, clock,
                   wlocal, hist>>

\* initPacketList lines 43-44 on the entry thread
M_SendMalloc ==
    /\ proc = "running" /\ mpc = "send_malloc"
    /\ midiPacketList' = "alloc"
    /\ packets' = MIDIPacketListInit
    /\ mpc' = "loop"
    /\ UNCHANGED <<proc, ppc, wpc, sync, handles, queues, parg, clock, wlocal,
                   hist>>

\* Device::~Device lines 48-49
D_DisposeEndpoint ==
    /\ proc = "running" /\ mpc = "loop"
    /\ deviceEndpoint' = "disposed"
    /\ mpc' = "d_client"
    /\ UNCHANGED <<proc, ppc, wpc, sync, deviceClient, buffer, queues, parg,
                   clock, wlocal, hist>>

\* Device::~Device lines 50-51
D_DisposeClient ==
    /\ proc = "running" /\ mpc = "d_client"
    /\ deviceClient' = "disposed"
    /\ mpc' = "d_free"
    /\ UNCHANGED <<proc, ppc, wpc, sync, deviceEndpoint, buffer, queues, parg,
                   clock, wlocal, hist>>

\* Device::~Device lines 52-53: the pointer is not reset
D_Free ==
    /\ proc = "running" /\ mpc = "d_free"
    /\ CASE midiPacketList = "NULL" ->
              mpc' = "d_cancel" /\ UNCHANGED <<proc, midiPacketList>>
         [] midiPacketList = "alloc" ->
              /\ midiPacketList' = "freed"
              /\ mpc' = "d_cancel"
              /\ UNCHANGED proc
         [] midiPacketList = "freed" ->
              \E crash \in BOOLEAN :
                  IF crash
                  THEN proc' = "crash" /\ UNCHANGED <<mpc, midiPacketList>>
                  ELSE mpc' = "d_cancel" /\ UNCHANGED <<proc, midiPacketList>>
    /\ UNCHANGED <<ppc, wpc, sync, handles, packets, queues, parg, clock,
                   wlocal, hist>>

\* Device::~Device lines 55-56
D_Cancel ==
    /\ proc = "running" /\ mpc = "d_cancel"
    /\ cancelRequested' = TRUE
    /\ mpc' = "d_destroy"
    /\ UNCHANGED <<proc, ppc, wpc, mutex, cond, handles, buffer, queues, parg,
                   clock, wlocal, hist>>

\* Device::~Device lines 58-61. Destroying a locked mutex is undefined: it is
\* refused (EBUSY, the result is ignored) or the mutex is destroyed.
D_Destroy ==
    /\ proc = "running" /\ mpc = "d_destroy"
    /\ mutex' \in (IF mutex = "free" THEN {"destroyed"}
                   ELSE {mutex, "destroyed"})
    /\ cond' = "destroyed"
    /\ mpc' = "stopped"
    /\ UNCHANGED <<proc, ppc, wpc, cancelRequested, handles, buffer, queues,
                   parg, clock, wlocal, hist>>

\* --------------------------------------------------------- producer thread
\* a producer calls Device::addControlMessage on a running Device
P_Call ==
    /\ proc = "running" /\ ppc = "idle"
    /\ Running
    /\ Len(enqueued) < MaxMsgs
    /\ \E in \in Inputs : parg' = in
    /\ ppc' = "lock"
    /\ UNCHANGED <<proc, mpc, wpc, sync, handles, buffer, queues, clock,
                   wlocal, hist>>

\* line 201: pthread_mutex_lock (on a destroyed mutex: EINVAL, ignored)
P_Lock ==
    /\ proc = "running" /\ ppc = "lock"
    /\ \/ mutex = "free" /\ mutex' = "producer"
       \/ mutex = "destroyed" /\ UNCHANGED mutex
    /\ ppc' = "push"
    /\ UNCHANGED <<proc, mpc, wpc, cond, cancelRequested, handles, buffer,
                   queues, parg, clock, wlocal, hist>>

\* lines 202-206
P_Push ==
    /\ proc = "running" /\ ppc = "push"
    /\ \E race \in RaceOutcomes(ppc, wpc) :
        IF race = "crash"
        THEN proc' = "crash" /\ UNCHANGED <<ppc, midiMessageQueue, enqueued>>
        ELSE LET m == [id |-> Len(enqueued) + 1,
                      control_index |-> parg[1],
                      control_value |-> parg[2],
                      timestamp |-> gettimeofday(now),
                      at |-> now,
                      inwait |-> wpc \in {"waiting", "reacquire"}]
             IN /\ midiMessageQueue' = QueuePush(midiMessageQueue, m)
                /\ enqueued' = Append(enqueued, [id |-> m.id,
                                                 control_index |-> parg[1],
                                                 control_value |-> parg[2]])
                /\ ppc' = "unlock"
                /\ UNCHANGED proc
    /\ UNCHANGED <<mpc, wpc, sync, handles, buffer, queueCopy, msg, parg,
                   clock, wlocal, examined, sends>>

\* line 207: pthread_mutex_unlock; by a thread that does not own the mutex it
\* is undefined: the mutex is left alone or released
P_Unlock ==
    /\ proc = "running" /\ ppc = "unlock"
    /\ CASE mutex = "producer" -> mutex' = Unlocked(mutex)
         [] mutex = "destroyed" -> UNCHANGED mutex
         [] OTHER -> mutex' \in {mutex, "free"}
    /\ ppc' = "signal"
    /\ UNCHANGED <<proc, mpc, wpc, cond, cancelRequested, handles, buffer,
                   queues, parg, clock, wlocal, hist>>

\* line 208: pthread_cond_signal wakes the worker if it is blocked in the wait
P_Signal ==
    /\ proc = "running" /\ ppc = "signal"
    /\ IF wpc = "waiting"
       THEN wpc' = "reacquire" /\ wres' = 0
       ELSE UNCHANGED <<wpc, wres>>
    /\ ppc' = "idle"
    /\ parg' = <<0, 0>>
    /\ UNCHANGED <<proc, mpc, sync, handles, buffer, queues, clock, ts,
                   sendStatus, hist>>


\* ----------------------------------------------------------- worker thread
W_TestCancel_never ==
    /\ proc = "running" /\ wpc = "testcancel"
    /\ wpc' = "callwait"
    /\ UNCHANGED <<proc, mpc, ppc, sync, handles, buffer, queues, parg, clock,
                   wlocal, hist>>

\* line 132: pthread_testcancel
W_TestCancel ==
    /\ proc = "running" /\ wpc = "testcancel"
    /\ wpc' = IF cancelRequested THEN "cancelled" ELSE "callwait"
    /\ UNCHANGED <<proc, mpc, ppc, sync, handles, buffer, queues, parg, clock,
                   wlocal, hist>>

AfterWait_break(res) ==
    IF res = ETIMEDOUT THEN "cancelled"
    ELSE IF res # 0 THEN "exit:wait"
    ELSE "checkempty"

\* lines 142-151: where the loop goes with the res of the wait
AfterWait(res) ==
    IF res = ETIMEDOUT THEN "testcancel"
    ELSE IF res # 0 THEN "exit:wait"
    ELSE "checkempty"

\* lines 138-141: the deadline and the call of pthread_cond_timedwait. The
\* wait releases the mutex and blocks. Called by a thread that does not hold
\* the mutex the call is undefined: it fails (EPERM, and lines 147-149 exit)
\* or it releases the mutex whoever holds it and blocks.
W_CallWait ==
    /\ proc = "running" /\ wpc = "callwait"
    /\ \E res \in (CASE mutex = "worker" -> {0}
                     [] mutex = "destroyed" -> {EINVAL}
                     [] OTHER -> {0, EPERM}) :
        IF res = 0
        THEN /\ mutex' = Unlocked(mutex)
             /\ ts' = TimedWaitDeadline(gettimeofday(now))
             /\ wpc' = "waiting"
             /\ UNCHANGED proc
        ELSE /\ proc' = AfterWait(res)
             /\ UNCHANGED <<mutex, ts, wpc>>
    /\ UNCHANGED <<mpc, ppc, cond, cancelRequested, handles, buffer, queues,
                   parg, clock, wres, sendStatus, hist>>

\* the timed wait expires: the clock has reached the deadline
W_Timeout ==
    /\ proc = "running" /\ wpc = "waiting"
    /\ DeadlineUs(ts) <= MaxTime
    /\ now' = Max(now, DeadlineUs(ts))
    /\ wres' = ETIMEDOUT
    /\ wpc' = "reacquire"
    /\ UNCHANGED <<proc, mpc, ppc, sync, handles, buffer, queues, parg, ts,
                   sendStatus, hist>>

\* a spurious wakeup of the condition wait
W_Spurious ==
    /\ proc = "running" /\ wpc = "waiting"
    /\ wres' = 0
    /\ wpc' = "reacquire"
    /\ UNCHANGED <<proc, mpc, ppc, sync, handles, buffer, queues, parg, clock,
                   ts, sendStatus, hist>>

\* pthread_cond_timedwait re-acquires the mutex and returns res; lines
\* 142-151 (res and ts are dead afterwards). Locking a destroyed mutex is
\* undefined: the wait returns its result or EINVAL without the mutex.
W_Reacquire ==
    /\ proc = "running" /\ wpc = "reacquire"
    /\ \E res \in (IF mutex = "destroyed" THEN {wres, EINVAL} ELSE {wres}) :
        /\ mutex \in {"free", "destroyed"}
        /\ mutex' = IF mutex = "free" THEN "worker" ELSE mutex
        /\ IF AfterWait(res) = "exit:wait"
           THEN proc' = "exit:wait" /\ UNCHANGED wpc
           ELSE wpc' = AfterWait(res) /\ UNCHANGED proc
    /\ wres' = 0
    /\ ts' = [tv_sec |-> 0, tv_nsec |-> 0]
    /\ UNCHANGED <<mpc, ppc, cond, cancelRequested, handles, buffer, queues,
                   parg, clock, sendStatus, hist>>

\* the wait is a cancellation point: a cancelled waiter re-acquires the mutex
\* and terminates (no cleanup handler releases it)
W_CancelInWait ==
    /\ proc = "running" /\ wpc = "waiting"
    /\ cancelRequested
    /\ \/ mutex = "free" /\ mutex' = "worker"
       \/ mutex = "destroyed" /\ UNCHANGED mutex
    /\ wpc' = "cancelled"
    /\ UNCHANGED <<proc, mpc, ppc, cond, cancelRequested, handles, buffer,
                   queues, parg, clock, wlocal, hist>>

\* lines 153-160. The result of the unlock at line 154 is ignored.
W_CheckEmpty ==
    /\ proc = "running" /\ wpc = "checkempty"
    /\ \E race \in RaceOutcomes(ppc, wpc) :
        IF race = "crash"
        THEN proc' = "crash" /\ UNCHANGED <<mutex, wpc, queueCopy>>
        ELSE IF midiMessageQueue = << >>
        THEN /\ mutex' = IF mutex = "worker" THEN Unlocked(mutex) ELSE mutex
             /\ wpc' = "testcancel"
             /\ UNCHANGED <<proc, queueCopy>>
        ELSE /\ queueCopy' = << >>
             /\ wpc' = "drain"
             /\ UNCHANGED <<proc, mutex>>
    /\ UNCHANGED <<mpc, ppc, cond, cancelRequested, handles, buffer,
                   midiMessageQueue, msg, parg, clock, wlocal, hist>>

\* line 162: midi_message msg = midiMessageQueue.front() copies the struct
\* (the record of when it was pushed is of no use once it is drained)
Copied(m) == [m EXCEPT !.inwait = FALSE]

\* lines 161-165: one turn of the copy loop
W_Drain ==
    /\ proc = "running" /\ wpc = "drain"
    /\ \E race \in RaceOutcomes(ppc, wpc) :
        IF race = "crash"
        THEN proc' = "crash" /\ UNCHANGED <<wpc, midiMessageQueue, queueCopy>>
        ELSE IF midiMessageQueue # << >>
        THEN /\ queueCopy' = QueuePush(queueCopy,
                                     Copied(QueueFront(midiMessageQueue)))
             /\ midiMessageQueue' = QueuePop(midiMessageQueue)
             /\ UNCHANGED <<proc, wpc>>
        ELSE /\ wpc' = "unlock"
             /\ UNCHANGED <<proc, midiMessageQueue, queueCopy>>
    /\ UNCHANGED <<mpc, ppc, sync, handles, buffer, msg, parg, clock,
                   wlocal, hist>>

W_Unlock_missing ==
    /\ proc = "running" /\ wpc = "unlock"
    /\ wpc' = "wcm"
    /\ UNCHANGED <<proc, mpc, ppc, sync, handles, buffer, queues, parg, clock,
                   wlocal, hist>>

\* lines 168-171. Unlocking a mutex the thread does not own is undefined: it
\* fails, or it releases the mutex.
W_Unlock ==
    /\ proc = "running" /\ wpc = "unlock"
    /\ CASE mutex = "worker" ->
              /\ mutex' = Unlocked(mutex)
              /\ wpc' = "wcm"
              /\ UNCHANGED proc
         [] mutex = "destroyed" ->
              /\ proc' = "exit:unlock"
              /\ UNCHANGED <<mutex, wpc>>
         [] OTHER ->
              \E fails \in BOOLEAN :
                  IF fails
                  THEN proc' = "exit:unlock" /\ UNCHANGED <<mutex, wpc>>
                  ELSE mutex' = "free" /\ wpc' = "wcm" /\ UNCHANGED proc
    /\ UNCHANGED <<mpc, ppc, cond, cancelRequested, handles, buffer, queues,
                   parg, clock, wlocal, hist>>

\* Device::writeControlMessages lines 182-196: one turn of the loop, up to the
\* call of writeControl (msg is dead after the continue of line 192)
W_Examine ==
    /\ proc = "running" /\ wpc = "wcm"
    /\ IF queueCopy = << >>
       THEN /\ wpc' = "testcancel"
            /\ UNCHANGED <<queueCopy, msg, examined>>
       ELSE LET m == QueueFront(queueCopy)
                stale == IsStale(gettimeofday(now), m)
            IN /\ msg' = IF stale THEN NoMsg ELSE m
               /\ queueCopy' = QueuePop(queueCopy)
               /\ examined' = Append(examined,
                                     [id |-> m.id,
                                      control_index |-> m.control_index,
                                      control_value |-> m.control_value,
                                      rest |-> Len(queueCopy) - 1,
                                      dropped |-> stale])
               /\ wpc' = IF stale THEN "wcm" ELSE "wc_add"
    /\ UNCHANGED <<proc, mpc, ppc, sync, handles, buffer, midiMessageQueue,
                   parg, clock, wlocal, enqueued, sends>>

\* what a use of the block behind the member pointer can do: a null or
\* dangling pointer (or one freed between its read and its use) is undefined:
\* the access crashes, or it reads and writes the old block
UseOutcomes(ptr) == IF ptr = "alloc" THEN {"ok"} ELSE {"ok", "crash"}

\* Device::writeControl lines 93-117: the assertions and MIDIPacketListAdd.
\* A failed assertion aborts, or is compiled out (NDEBUG).
W_Add ==
    /\ proc = "running" /\ wpc = "wc_add"
    /\ \E ndebug \in BOOLEAN, use \in UseOutcomes(midiPacketList) :
        LET out == MIDIPacketListAdd(packets, packetListSize, 0,
                                     PacketOut(msg.control_index,
                                               msg.control_value))
        IN CASE ~AssertsHold(msg.control_index, msg.control_value) /\ ~ndebug ->
                  proc' = "abort:assert" /\ UNCHANGED <<wpc, packets>>
             [] OTHER ->
                  IF use = "crash"
                  THEN proc' = "crash" /\ UNCHANGED <<wpc, packets>>
                  ELSE IF out = "NULL"
                  THEN proc' = "exit:overrun" /\ UNCHANGED <<wpc, packets>>
                  ELSE /\ packets' = out
                       /\ wpc' = "wc_recv"
                       /\ UNCHANGED proc
    /\ UNCHANGED <<mpc, ppc, sync, handles, midiPacketList, queues, parg,
                   clock, wlocal, hist>>

AfterReceived_stop(status) == IF status # noErr THEN "cancelled" ELSE "wc_free"
AfterReceived_noreset(status) == IF status # noErr THEN "wcm" ELSE "wc_free"

\* what the worker does with the OSStatus of MIDIReceived (lines 80-87, 123):
\* it goes on to initPacketList whatever the status
AfterReceived(status) == "wc_free"

\* Device::send line 80 called from writeControl line 123: MIDIReceived on
\* the block the member pointer names now
W_Received ==
    /\ proc = "running" /\ wpc = "wc_recv"
    /\ \E status \in Statuses, use \in UseOutcomes(midiPacketList) :
        IF use = "crash"
        THEN proc' = "crash" /\ UNCHANGED <<wpc, sendStatus, sends>>
        ELSE /\ deviceEndpoint = "disposed" => status # noErr
             /\ sends' = Append(sends, [id |-> msg.id, pkts |-> packets])
             /\ sendStatus' = status
             /\ wpc' = AfterReceived(status)
             /\ UNCHANGED proc
    /\ UNCHANGED <<mpc, ppc, sync, handles, buffer, queues, parg, clock, ts,
                   wres, enqueued, examined>>

\* initPacketList lines 38-41 on the worker
W_Free ==
    /\ proc = "running" /\ wpc = "wc_free"
    /\ \E out \in FreeOutcomes(midiPacketList) :
        IF out = "crash"
        THEN proc' = "crash" /\ UNCHANGED <<wpc, midiPacketList>>
        ELSE /\ midiPacketList' = out
             /\ wpc' = "wc_malloc"
             /\ UNCHANGED proc
    /\ UNCHANGED <<mpc, ppc, sync, handles, packets, queues, parg, clock,
                   wlocal, hist>>

\* initPacketList lines 43-44 on the worker, and the return to the loop of
\* writeControlMessages
W_Malloc ==
    /\ proc = "running" /\ wpc = "wc_malloc"
    /\ midiPacketList' = "alloc"
    /\ packets' = MIDIPacketListInit
    /\ wpc' = "wcm"
    /\ msg' = NoMsg
    /\ sendStatus' = 0
    /\ UNCHANGED <<proc, mpc, ppc, sync, handles, midiMessageQueue, queueCopy,
                   parg, clock, ts, wres, hist>>

\* ------------------------------------------------------------ specification
Main ==
    \/ M_InitPacketList \/ M_ClientCreate \/ M_SourceCreate \/ M_ThreadCreate
    \/ M_SendNote \/ M_SendFree \/ M_SendMalloc
    \/ D_DisposeEndpoint \/ D_DisposeClient \/ D_Free \/ D_Cancel \/ D_Destroy

Producer == P_Call \/ P_Lock \/ P_Push \/ P_Unlock \/ P_Signal

Worker ==
    \/ W_TestCancel \/ W_CallWait \/ W_Timeout \/ W_Spurious \/ W_Reacquire
    \/ W_CancelInWait \/ W_CheckEmpty \/ W_Drain \/ W_Unlock
    \/ W_Examine \/ W_Add \/ W_Received \/ W_Free \/ W_Malloc

Next == Tick \/ Main \/ Producer \/ Worker

Spec == Init /\ [][Next]_vars

\* Scheduling: a thread that can take its next step takes it. The worker is
\* not owed spurious wakeups; the timed wait expires when the clock allows.
\* The entry thread finishes a send or a destructor it has begun; whether it
\* begins one, and whether a producer calls, is up to the environment. The
\* producer gets the mutex if it is free again and again.
WorkerSteps ==
    \/ W_TestCancel \/ W_CallWait \/ W_Timeout \/ W_Reacquire
    \/ W_CancelInWait \/ W_CheckEmpty \/ W_Drain \/ W_Unlock
    \/ W_Examine \/ W_Add \/ W_Received \/ W_Free \/ W_Malloc

ProducerSteps == P_Push \/ P_Unlock \/ P_Signal

MainSteps ==
    \/ M_SendFree \/ M_SendMalloc
    \/ D_DisposeClient \/ D_Free \/ D_Cancel \/ D_Destroy

FairSpec ==
    /\ Spec
    /\ WF_vars(WorkerSteps)
    /\ WF_vars(ProducerSteps)
    /\ SF_vars(P_Lock)
    /\ WF_vars(MainSteps)


\* ------------------------------------------------------------------ claims
\* the updates passed to writeControl, in the order of the calls
Forwarded == SelectSeq(examined, LAMBDA e : ~e.dropped)
WorkerLive == wpc \notin {"none", "cancelled"}
InSendPath == wpc \in {"wcm", "wc_add", "wc_recv", "wc_free", "wc_malloc"}

\* C1: the updates forwarded to writeControl are a subsequence of the
\* enqueued updates, in the same relative order, also across batches: each
\* forwarded update is an enqueued one with its index and value, and the
\* forwarded positions in the enqueue order strictly increase.
C1_OrderPreservation ==
    /\ \A i \in DOMAIN Forwarded :
        /\ Forwarded[i].id \in DOMAIN enqueued
        /\ enqueued[Forwarded[i].id].control_index = Forwarded[i].control_index
        /\ enqueued[Forwarded[i].id].control_value = Forwarded[i].control_value
    /\ \A i, j \in DOMAIN Forwarded :
        i < j => Forwarded[i].id < Forwarded[j].id

\* two updates forwarded from two different batches (the first was the last
\* of its batch)
C1_Witness ==
    /\ Len(Forwarded) = 2
    /\ Forwarded[1].rest = 0
    /\ Len(sends) = 2

\* C2: an examined update is dropped iff its age at the examination is
\* strictly greater than 2 ms; a dropped update is not passed to writeControl
\* and no driver send is made for it; an update at or under the bound goes to
\* writeControl.
C2_StalenessBound ==
    /\ [](\A i \in DOMAIN examined :
            examined[i].dropped =>
                /\ \A k \in DOMAIN sends : sends[k].id # examined[i].id
                /\ msg.id # examined[i].id)
    /\ [][Len(examined') = Len(examined) + 1 =>
            LET m == Head(queueCopy)
                e == examined'[Len(examined')]
            IN /\ e.id = m.id
               /\ e.dropped <=> (now - m.at > StalenessMs * 1000)
               /\ e.dropped => wpc' = "wcm" /\ msg' # m
               /\ ~e.dropped => wpc' = "wc_add" /\ msg' = m]_vars

\* a stale update was dropped and the next one, fresh, was sent
C2_Witness ==
    /\ Len(examined) = 2
    /\ examined[1].dropped
    /\ ~examined[2].dropped
    /\ \E k \in DOMAIN sends : sends[k].id = examined[2].id

\* C3: while the worker is in writeControlMessages / writeControl / send it
\* does not hold the queue mutex.
C3_NoLockDuringSend == InSendPath => mutex # "worker"

\* the producer holds the mutex and has pushed while the worker is about to
\* call MIDIReceived
C3_Witness ==
    /\ wpc = "wc_recv"
    /\ mutex = "producer"
    /\ ppc = "unlock"
    /\ midiMessageQueue # << >>

\* C4: no live worker thread coexists with a disposed endpoint or a freed
\* packet buffer.
C4_ShutdownOrdering ==
    WorkerLive => deviceEndpoint # "disposed" /\ midiPacketList # "freed"

\* C5: the entry thread is never inside the re-initialisation of the packet
\* buffer while the worker is between MIDIPacketListAdd and the end of its
\* own send.
C5_SingleWriter ==
    ~(mpc = "send_malloc" /\ wpc \in {"wc_recv", "wc_free", "wc_malloc"})

\* C8: every driver send of the worker carries exactly one packet with the
\* bytes [0xB0, index, value] of the update it is made for, and no update
\* gets two sends.
C8_OneSendPerUpdate ==
    /\ \A k \in DOMAIN sends :
        /\ Len(sends[k].pkts) = 1
        /\ sends[k].pkts[1].data =
              <<176, enqueued[sends[k].id].control_index,
                enqueued[sends[k].id].control_value>>
    /\ \A k, l \in DOMAIN sends : sends[k].id = sends[l].id => k = l

\* C9: every update in the queue or in a drained batch is in range.
C9_EnqueueValidates ==
    \A q \in {midiMessageQueue, queueCopy} : \A k \in DOMAIN q :
        /\ q[k].control_index >= 0 /\ q[k].control_index < 120
        /\ q[k].control_value >= 0 /\ q[k].control_value < 128


\* C6: once cancellation is requested the worker thread ends (it is
\* cancelled, or the whole process has ended), wherever it was in its loop
\* and even if nothing is ever pushed; a timed wait that expires under a
\* pending cancellation leads to pthread_testcancel, which ends the thread,
\* so no second expiry follows.
C6_CancellationLiveness ==
    /\ cancelRequested ~> (wpc = "cancelled" \/ proc # "running")
    /\ [][(cancelRequested /\ wpc = "reacquire" /\ wres = ETIMEDOUT) =>
            wpc' \in {"reacquire", "testcancel"}]_vars
    /\ [][(cancelRequested /\ wpc = "testcancel") =>
            wpc' \in {"testcancel", "cancelled"}]_vars

\* the worker was cancelled inside its timed wait although no update was ever
\* pushed: it ended holding the mutex the wait re-acquired
C6_Witness ==
    /\ cancelRequested
    /\ wpc = "cancelled"
    /\ mutex = "worker"
    /\ enqueued = << >>
    /\ proc = "running"

\* C7: a call of addControlMessage on a Device that stays Running returns
\* (the call waits for the mutex only, and gets it unless the destructor has
\* cancelled the worker or the process has ended); its push appends exactly
\* the update at the tail of the queue, and it returns from the signal.
C7_ProducerProgress ==
    /\ (ppc = "lock") ~> (ppc = "idle" \/ cancelRequested \/ proc # "running")
    /\ [][(ppc = "push" /\ ppc' = "unlock") =>
            /\ Len(midiMessageQueue') = Len(midiMessageQueue) + 1
            /\ SubSeq(midiMessageQueue', 1, Len(midiMessageQueue))
                  = midiMessageQueue
            /\ LET m == midiMessageQueue'[Len(midiMessageQueue')]
               IN m.control_index = parg[1] /\ m.control_value = parg[2]]_vars
    /\ [][(ppc # "idle" /\ ppc' = "idle") => ppc = "signal"]_vars

\* a second call has returned while the Device is Running and the worker is
\* between MIDIPacketListAdd and MIDIReceived for the first update
C7_Witness ==
    /\ ppc = "idle"
    /\ Running
    /\ Len(enqueued) = 2
    /\ wpc = "wc_recv"
    /\ msg.id = 1
    /\ Len(midiMessageQueue) = 1

\* C10: after a send with a non-success status the worker is still in the
\* send path with the process alive (only an undefined free can end it), and
\* it returns to the loop of writeControlMessages with the rest of the batch
\* untouched.
C10_SendFailureContinues ==
    /\ [](sendStatus # noErr =>
            /\ wpc \in {"wc_free", "wc_malloc"}
            /\ proc \in {"running", "crash"})
    /\ [][(sendStatus # noErr /\ wpc = "wc_malloc" /\ wpc' # wpc) =>
            /\ wpc' = "wcm"
            /\ proc' = "running"
            /\ queueCopy' = queueCopy]_vars

\* the send of the first update of a batch of two failed and the second one
\* has been sent after it
C10_Witness ==
    /\ Len(sends) = 2
    /\ Forwarded[1].rest = 1
    /\ sendStatus # noErr
    /\ wpc = "wc_malloc"

\* C11: the packet buffer is re-initialised after every send of the worker,
\* whatever the status; it is empty whenever the worker starts an encode in
\* writeControl, and the encode never ends the process with a buffer overrun.
C11_BufferReuse ==
    /\ [](wpc = "wc_add" => packets = MIDIPacketListInit)
    /\ [](proc # "exit:overrun")
    /\ [][(wpc = "wc_recv" /\ wpc' # wpc) => wpc' = "wc_free"]_vars
    /\ [][(wpc = "wc_malloc" /\ wpc' # wpc) =>
            wpc' = "wcm" /\ packets' = MIDIPacketListInit]_vars

\* the second update of a batch is at its encode after the send of the first
C11_Witness ==
    /\ Len(sends) = 1
    /\ wpc = "wc_add"
    /\ msg.id = 2
    /\ Forwarded[1].rest = 1
    /\ packets = MIDIPacketListInit

\* the updates in the shared queue that were pushed while the worker was
\* inside its timed wait
PushedInWait == {k \in DOMAIN midiMessageQueue : midiMessageQueue[k].inwait}

\* C12: when the worker's timed wait returns and updates pushed during the
\* wait are in the queue, the worker goes on to the emptiness test and the
\* drain; once it has drained and is past the copy loop none of them is left
\* in the queue, and the batch holds them in their push order.
C12_DrainBatching ==
    /\ [][(wpc = "reacquire" /\ wpc' # wpc /\ proc' = "running"
              /\ PushedInWait # {}) => wpc' = "checkempty"]_vars
    /\ []((wpc = "unlock" \/ InSendPath) => PushedInWait = {})
    /\ [](\A i, j \in DOMAIN queueCopy : i < j => queueCopy[i].id < queueCopy[j].id)

\* C13: whenever the worker is at the call of pthread_cond_timedwait (in the
\* first iteration, after an unlock, after a timeout) it holds the queue
\* mutex.
C13_WaitHoldsMutex == wpc = "callwait" => mutex = "worker"

\* C14: the push of addControlMessage is executed by the producer as owner
\* of the queue mutex, and the worker's emptiness test and its front/pop copy
\* loop by the worker as owner of it (the mutex has one owner at a time).
C14_LockDiscipline ==
    /\ ppc = "push" => mutex = "producer"
    /\ wpc \in {"checkempty", "drain"} => mutex = "worker"

\* the midi_message structs of a queue, in order
Structs(q) == [k \in DOMAIN q |-> Copied(q[k])]

\* C15: the drain starts with an empty batch; while the worker is in the
\* copy loop the batch followed by the shared queue stays the queue content
\* of the start of the drain (each turn moves the front, nothing is pushed in
\* between); when the loop is left the shared queue is empty and the batch is
\* that content.
C15_AtomicDrain ==
    /\ [][(wpc = "checkempty" /\ wpc' = "drain") =>
            queueCopy' = << >> /\ midiMessageQueue' = midiMessageQueue]_vars
    /\ [][wpc = "drain" =>
            Structs(queueCopy') \o Structs(midiMessageQueue')
                = Structs(queueCopy) \o Structs(midiMessageQueue)]_vars
    /\ [](wpc = "unlock" => midiMessageQueue = << >> /\ queueCopy # << >>)

\* C16: while the worker runs and is not cancelled, an update in the shared
\* queue is eventually taken out of it by the worker, whether or not another
\* push follows. In the two cases the claim names: the worker does not block
\* in the timed wait while an update is in the queue and its producer has
\* returned (the signal was sent while the worker was not waiting), and a
\* wait that expires with an update in the queue is followed by the drain.
C16_EventualDrain ==
    /\ [][(wpc = "callwait" /\ wpc' = "waiting" /\ ppc = "idle") =>
            midiMessageQueue = << >>]_vars
    /\ [][(wpc = "reacquire" /\ wres = ETIMEDOUT /\ wpc' # wpc
              /\ proc' = "running" /\ midiMessageQueue # << >>) =>
            wpc' = "checkempty"]_vars
    /\ (midiMessageQueue # << >>) ~>
            (midiMessageQueue = << >> \/ cancelRequested \/ proc # "running")

\* C17: the worker does not own the queue mutex at the top of its loop (the
\* cancellation check of line 132), whichever path led back there, nor when
\* it has terminated.
C17_MutexReleasedAtLoopTop ==
    wpc \in {"testcancel", "cancelled"} => mutex # "worker"

\* the ids of the updates of a sequence, in order
Ids(q) == [k \in DOMAIN q |-> q[k].id]

\* where the enqueued updates are: the shared queue, the worker's batch, and
\* the updates the worker has examined (forwarded or dropped)
Places == Ids(midiMessageQueue) \o Ids(queueCopy) \o Ids(examined)

\* C18: every enqueued update is in exactly one place: the shared queue, the
\* batch, forwarded (once) or dropped (once); whatever is in the queue, in
\* the batch or examined is an enqueued update with the index and value it
\* was pushed with; a driver send is made only for a forwarded update, and
\* once.
C18_Conservation ==
    /\ \A id \in DOMAIN enqueued :
        Cardinality({k \in DOMAIN Places : Places[k] = id}) = 1
    /\ \A k \in DOMAIN Places : Places[k] \in DOMAIN enqueued
    /\ \A q \in {midiMessageQueue, queueCopy, examined} : \A k \in DOMAIN q :
        /\ q[k].control_index = enqueued[q[k].id].control_index
        /\ q[k].control_value = enqueued[q[k].id].control_value
    /\ \A k \in DOMAIN sends :
        /\ \E i \in DOMAIN Forwarded : Forwarded[i].id = sends[k].id
        /\ \A l \in DOMAIN sends : sends[l].id = sends[k].id => l = k

\* the first update was dropped and the second, pushed after the first was
\* drained, is in the shared queue at the start of the next drain
C18_Witness ==
    /\ Len(examined) = 1
    /\ examined[1].dropped
    /\ wpc = "drain"
    /\ Ids(midiMessageQueue) = <<2>>
    /\ queueCopy = << >>

\* C19: the worker is spawned only with the packet buffer allocated and the
\* client and the endpoint created; a failed creation of the client, the
\* endpoint or the thread ends the process with no worker and the Device not
\* Running; and while a worker thread exists the endpoint is a created one
\* and the packet buffer an allocated one (the worker's own re-initialisation
\* between its free and its malloc aside).
C19_InitOrder ==
    /\ [][(wpc = "none" /\ wpc' # "none") =>
            /\ midiPacketList = "alloc"
            /\ deviceClient = "created"
            /\ deviceEndpoint = "created"]_vars
    /\ [](proc \in {"exit:create", "exit:thread"} => wpc = "none" /\ ~Running)
    /\ [](WorkerLive =>
            /\ deviceEndpoint = "created"
            /\ midiPacketList = "alloc" \/ wpc = "wc_malloc")

\* C20: the deadline the worker hands to pthread_cond_timedwait is the clock
\* it read for that iteration plus exactly 2 seconds, whatever the clock's
\* seconds and microseconds.
C20_FixedTimeout ==
    [][(wpc = "callwait" /\ wpc' = "waiting") =>
          DeadlineUs(ts') = now + TimeoutSec * UsecPerSec]_vars

====
